---- MODULE Spec2Model ----
(***************************************************************************)
(* A model of the ucode command line front end (src/main.c): option        *)
(* processing, the single-use standard input slot, the chunked JSON        *)
(* reader, the configuration merge, the shebang probe and the driver that  *)
(* compiles, builds the scopes and executes.                               *)
(*                                                                         *)
(* Bytes and characters are one-character strings; a byte that is not a    *)
(* printable character, tab, line feed, form feed or carriage return is    *)
(* the string "xHH" of its two hexadecimal digits (0xFF is "xFF", NUL is   *)
(* "x00"), and so is the grave accent ("x60").  Texts, keys and paths are  *)
(* sequences of them.                                                      *)
(***************************************************************************)
EXTENDS Integers, Sequences, FiniteSets, TLC

(***************************************************************************)
(* JSON values (json_object pointers).  Every value is a record of one     *)
(* shape; objects and arrays keep their members in insertion order, as     *)
(* json-c's linkhash does.                                                 *)
(***************************************************************************)
Null == [type |-> "null", items |-> <<>>, lit |-> <<>>]

xjs_new_object == [type |-> "object", items |-> <<>>, lit |-> <<>>]

xjs_new_array == [type |-> "array", items |-> <<>>, lit |-> <<>>]

IntVal(digits) == [type |-> "int", items |-> <<>>, lit |-> digits]

xjs_new_string(chars) == [type |-> "string", items |-> <<>>, lit |-> chars]

CFunction(name) == [type |-> "cfunction", items |-> <<>>, lit |-> name]

json_object_is_type(v, t) == v.type = t

KeysOf(o) == {o.items[i].k : i \in 1..Len(o.items)}

HasKey(o, key) == key \in KeysOf(o)

KeyIndex(o, key) == CHOOSE i \in 1..Len(o.items) : o.items[i].k = key

json_object_object_get(o, key) ==
    IF HasKey(o, key) THEN o.items[KeyIndex(o, key)].v ELSE Null

\* An existing key has its value replaced in place; a new key is appended.
json_object_object_add(o, key, val) ==
    IF HasKey(o, key)
    THEN [o EXCEPT !.items[KeyIndex(o, key)].v = val]
    ELSE [o EXCEPT !.items = Append(@, [k |-> key, v |-> val])]

json_object_array_add(a, val) ==
    [a EXCEPT !.items = Append(@, [k |-> <<>>, v |-> val])]

(***************************************************************************)
(* The incremental tokenizer of json-c (json_tokener_parse_ex, flags 0,    *)
(* so not strict), one character at a time.  A level of the stack holds    *)
(* state, saved state, the value under construction and the pending key;   *)
(* pb is the print buffer.  goto redo_char is a recursive call on the same *)
(* character, break is the return of the tokenizer with it consumed.       *)
(***************************************************************************)
Digits == {"0", "1", "2", "3", "4", "5", "6", "7", "8", "9"}

DigitSeq == <<"0", "1", "2", "3", "4", "5", "6", "7", "8", "9">>

UpperSeq ==
    <<"A", "B", "C", "D", "E", "F", "G", "H", "I", "J", "K", "L", "M",
    "N", "O", "P", "Q", "R", "S", "T", "U", "V", "W", "X", "Y", "Z">>

LowerSeq ==
    <<"a", "b", "c", "d", "e", "f", "g", "h", "i", "j", "k", "l", "m",
    "n", "o", "p", "q", "r", "s", "t", "u", "v", "w", "x", "y", "z">>

HexSeq == DigitSeq \o <<"A", "B", "C", "D", "E", "F">>

\* The printable characters 0x20..0x7E in order; the grave accent is written x60.
AsciiSeq ==
    <<" ", "!", "\"", "#", "$", "%", "&", "'", "(", ")", "*", "+",
    ",", "-", ".", "/", "0", "1", "2", "3", "4", "5", "6", "7",
    "8", "9", ":", ";", "<", "=", ">", "?", "@", "A", "B", "C",
    "D", "E", "F", "G", "H", "I", "J", "K", "L", "M", "N", "O",
    "P", "Q", "R", "S", "T", "U", "V", "W", "X", "Y", "Z", "[",
    "\\", "]", "^", "_", "x60", "a", "b", "c", "d", "e", "f", "g",
    "h", "i", "j", "k", "l", "m", "n", "o", "p", "q", "r", "s",
    "t", "u", "v", "w", "x", "y", "z", "{", "|", "}", "~">>

IndexIn(c, seq) == CHOOSE i \in 1..Len(seq) : seq[i] = c

tolower(c) == IF \E i \in 1..Len(UpperSeq) : UpperSeq[i] = c THEN LowerSeq[IndexIn(c, UpperSeq)] ELSE c

toupper(c) == IF \E i \in 1..Len(LowerSeq) : LowerSeq[i] = c THEN UpperSeq[IndexIn(c, LowerSeq)] ELSE c

\* The name of byte n: the character itself where it can be written, else "xHH".
ByteName(n) ==
    IF n >= 32 /\ n <= 126 THEN AsciiSeq[n - 31]
    ELSE IF n = 9 THEN "\t"
    ELSE IF n = 10 THEN "\n"
    ELSE IF n = 12 THEN "\f"
    ELSE IF n = 13 THEN "\r"
    ELSE "x" \o HexSeq[(n \div 16) + 1] \o HexSeq[(n % 16) + 1]

NUL == ByteName(0)

is_ws_char(c) == c \in {" ", "\t", "\n", "\r"}

is_hex_char(c) == \E i \in 1..Len(HexSeq) : HexSeq[i] = toupper(c)

jt_hexdigit(c) == IndexIn(toupper(c), HexSeq) - 1

\* strncasecmp(lit, buf, size) == 0
CaseEqual(lit, buf, size) == \A i \in 1..size : tolower(buf[i]) = tolower(lit[i])

Min(a, b) == IF a < b THEN a ELSE b

json_null_str == <<"n", "u", "l", "l">>

json_nan_str == <<"N", "a", "N">>

json_inf_str == <<"I", "n", "f", "i", "n", "i", "t", "y">>

json_true_str == <<"t", "r", "u", "e">>

json_false_str == <<"f", "a", "l", "s", "e">>

BoolVal(b) == [type |-> "boolean", items |-> <<>>, lit |-> IF b THEN json_true_str ELSE json_false_str]

\* A double keeps the text it is written back with.
DoubleVal(text) == [type |-> "double", items |-> <<>>, lit |-> text]

utf8_replacement_char == <<ByteName(239), ByteName(191), ByteName(189)>>

\* The UTF-8 bytes json_tokener_state_escape_unicode appends for a code point.
Utf8(u) ==
    IF u < 128 THEN <<ByteName(u)>>
    ELSE IF u < 2048 THEN <<ByteName(192 + (u \div 64)), ByteName(128 + (u % 64))>>
    ELSE IF u >= 56320 /\ u <= 57343 THEN utf8_replacement_char
    ELSE IF u < 65536
    THEN <<ByteName(224 + (u \div 4096)), ByteName(128 + ((u \div 64) % 64)),
           ByteName(128 + (u % 64))>>
    ELSE IF u < 1114112
    THEN <<ByteName(240 + ((u \div 262144) % 8)), ByteName(128 + ((u \div 4096) % 64)),
           ByteName(128 + ((u \div 64) % 64)), ByteName(128 + (u % 64))>>
    ELSE utf8_replacement_char

IS_HIGH_SURROGATE(u) == u >= 55296 /\ u <= 56319

IS_LOW_SURROGATE(u) == u >= 56320 /\ u <= 57343

DECODE_SURROGATE_PAIR(hi, lo) == ((hi % 1024) * 1024) + (lo % 1024) + 65536

(***************************************************************************)
(* Numbers: strtoll / strtoull on the print buffer with their saturation,  *)
(* and strtod, which must take the whole buffer.  Integers are kept as     *)
(* decimal digits so that their width does not matter.                     *)
(***************************************************************************)
\* The digits of buf from position i on, up to the first other character.
RECURSIVE DigitRun(_, _)
DigitRun(buf, i) ==
    IF i > Len(buf) \/ buf[i] \notin Digits THEN <<>>
    ELSE <<buf[i]>> \o DigitRun(buf, i + 1)

RECURSIVE StripZeros(_)
StripZeros(ds) ==
    IF Len(ds) > 1 /\ ds[1] = "0" THEN StripZeros(Tail(ds)) ELSE ds

\* a < b for digit sequences without leading zeros.
RECURSIVE DigitsLess(_, _)
DigitsLess(a, b) ==
    IF Len(a) # Len(b) THEN Len(a) < Len(b)
    ELSE IF a = <<>> THEN FALSE
    ELSE IF a[1] # b[1] THEN IndexIn(a[1], DigitSeq) < IndexIn(b[1], DigitSeq)
    ELSE DigitsLess(Tail(a), Tail(b))

INT64_MIN_DIGITS ==
    <<"9", "2", "2", "3", "3", "7", "2", "0", "3", "6", "8", "5", "4", "7", "7", "5", "8", "0", "8">>

UINT64_MAX_DIGITS ==
    <<"1", "8", "4", "4", "6", "7", "4", "4", "0", "7", "3", "7", "0", "9", "5", "5", "1", "6", "1", "5">>

\* json_parse_int64 for a buffer that starts with "-", json_parse_uint64 otherwise:
\* [ok, val].
ParseInteger(buf) ==
    IF buf[1] = "-"
    THEN LET ds == DigitRun(buf, 2)
             mag == StripZeros(ds)
         IN  IF ds = <<>> THEN [ok |-> FALSE, val |-> Null]
             ELSE IF mag = <<"0">> THEN [ok |-> TRUE, val |-> IntVal(mag)]
             ELSE IF DigitsLess(INT64_MIN_DIGITS, mag)
             THEN [ok |-> TRUE, val |-> IntVal(<<"-">> \o INT64_MIN_DIGITS)]
             ELSE [ok |-> TRUE, val |-> IntVal(<<"-">> \o mag)]
    ELSE LET ds == DigitRun(buf, 1)
             mag == StripZeros(ds)
         IN  IF ds = <<>> THEN [ok |-> FALSE, val |-> Null]
             ELSE IF DigitsLess(UINT64_MAX_DIGITS, mag)
             THEN [ok |-> TRUE, val |-> IntVal(UINT64_MAX_DIGITS)]
             ELSE [ok |-> TRUE, val |-> IntVal(mag)]

\* The buffer without the trailing e, E, + and - that are cut off a double.
RECURSIVE TrimDouble(_)
TrimDouble(buf) ==
    IF Len(buf) > 1 /\ buf[Len(buf)] \in {"e", "E", "-", "+"}
    THEN TrimDouble(SubSeq(buf, 1, Len(buf) - 1))
    ELSE buf

\* strtod takes all of buf: sign, digits with at most one point and at least one
\* digit, and an exponent with at least one digit.
StrtodTakesAll(buf) ==
    LET s == IF buf # <<>> /\ buf[1] \in {"-", "+"} THEN 2 ELSE 1
        d1 == Len(DigitRun(buf, s))
        p == s + d1
        point == p <= Len(buf) /\ buf[p] = "."
        d2 == IF point THEN Len(DigitRun(buf, p + 1)) ELSE 0
        e == IF point THEN p + 1 + d2 ELSE p
        es == IF e + 1 <= Len(buf) /\ buf[e + 1] \in {"-", "+"} THEN e + 2 ELSE e + 1
        d3 == Len(DigitRun(buf, es))
    IN  /\ d1 + d2 >= 1
        /\ \/ e = Len(buf) + 1
           \/ /\ e <= Len(buf) /\ buf[e] \in {"e", "E"}
              /\ d3 >= 1 /\ es + d3 = Len(buf) + 1

(***************************************************************************)
(* The tokenizer record and the moves of its state machine.                *)
(***************************************************************************)
JSON_TOKENER_DEFAULT_DEPTH == 32

\* json_tokener_reset_level
TokLevel == [state |-> "eatws", saved |-> "start", cur |-> Null, field |-> <<>>]

\* json_tokener_new
xjs_new_tokener ==
    [stack |-> <<TokLevel>>, pb |-> <<>>, st_pos |-> 0, is_double |-> FALSE,
     quote_char |-> "\"", ucs_char |-> 0, high_surrogate |-> 0,
     neg_sign_ok |-> TRUE, pos_sign_ok |-> FALSE, is_exponent |-> FALSE, case_len |-> 0,
     err |-> "success", out |-> FALSE, ret |-> Null]

TokDepth(tok) == Len(tok.stack) - 1

TokTop(tok) == tok.stack[Len(tok.stack)]

\* state = st
TokGo(tok, st) == [tok EXCEPT !.stack[Len(tok.stack)].state = st]

\* saved_state = sv; state = json_tokener_state_eatws
TokAfter(tok, sv) ==
    [tok EXCEPT !.stack[Len(tok.stack)].saved = sv, !.stack[Len(tok.stack)].state = "eatws"]

\* current = v
TokCur(tok, v) == [tok EXCEPT !.stack[Len(tok.stack)].cur = v]

\* tok->err = an error; goto out
TokFail(tok) == [tok EXCEPT !.err = "error", !.out = TRUE]

\* goto out on a NUL with no error set: json_tokener_error_parse_eof unless the
\* saved state of the level is finish.
TokEof(tok) ==
    IF tok.stack[Len(tok.stack)].saved = "finish" THEN [tok EXCEPT !.out = TRUE]
    ELSE TokFail(tok)

\* tok->depth++; json_tokener_reset_level(tok, tok->depth)
TokPush(tok) == [tok EXCEPT !.stack = Append(@, TokLevel)]

\* obj = current; reset the level; tok->depth--; then the *_add state of the level
\* below takes obj.
TokPop(tok) ==
    LET n == Len(tok.stack)
        obj == tok.stack[n].cur
        below == tok.stack[n - 1]
        cur2 == IF below.state = "array_add"
                THEN json_object_array_add(below.cur, obj)
                ELSE json_object_object_add(below.cur, below.field, obj)
        sep == IF below.state = "array_add" THEN "array_sep" ELSE "object_sep"
    IN  [tok EXCEPT !.stack = Append(SubSeq(tok.stack, 1, n - 2),
                                     [below EXCEPT !.cur = cur2, !.field = <<>>,
                                                   !.saved = sep, !.state = "eatws"])]

\* obj_field_name = strdup(tok->pb->buf): the key ends before a NUL.
RECURSIVE UpToNul(_)
UpToNul(buf) ==
    IF buf = <<>> \/ buf[1] = NUL THEN <<>> ELSE <<buf[1]>> \o UpToNul(Tail(buf))

\* c is taken into a number by the loop of json_tokener_state_number.
IsNumberChar(tok, c) ==
    \/ c \in Digits
    \/ ~tok.is_exponent /\ c \in {"e", "E"}
    \/ tok.neg_sign_ok /\ c = "-"
    \/ tok.pos_sign_ok /\ c = "+"
    \/ ~tok.is_double /\ c = "."

\* The flags of the number loop after it took c.
TakeNumberChar(tok, c) ==
    [tok EXCEPT !.pb = Append(@, c),
                !.case_len = @ + 1,
                !.is_double = @ \/ c \in {".", "e", "E"},
                !.is_exponent = @ \/ c \in {"e", "E"},
                !.neg_sign_ok = c \in {".", "e", "E"},
                !.pos_sign_ok = c \in {".", "e", "E"}]

\* The value of the number in pb: [ok, val].
NumberValue(tok) ==
    IF ~tok.is_double THEN ParseInteger(tok.pb)
    ELSE LET text == TrimDouble(tok.pb)
         IN  IF StrtodTakesAll(text) THEN [ok |-> TRUE, val |-> DoubleVal(text)]
             ELSE [ok |-> FALSE, val |-> Null]

\* The flags the number loop starts a call with when pb holds the number so far.
ResumeNumber(tok) ==
    IF TokTop(tok).state # "number" \/ tok.pb = <<>>
    THEN [tok EXCEPT !.case_len = 0]
    ELSE LET hasE == \E i \in 1..Len(tok.pb) : tok.pb[i] \in {"e", "E"}
             eLast == tok.pb[Len(tok.pb)] \in {"e", "E"}
         IN  [tok EXCEPT !.case_len = 0,
                         !.is_exponent = hasE,
                         !.neg_sign_ok = ~hasE \/ eLast,
                         !.pos_sign_ok = hasE /\ eLast]

\* One full \uNNNN is in ucs_char.
UnicodeDone(tok) ==
    LET hs == tok.high_surrogate
        paired == hs # 0 /\ IS_LOW_SURROGATE(tok.ucs_char)
        u == IF paired THEN DECODE_SURROGATE_PAIR(hs, tok.ucs_char) ELSE tok.ucs_char
        pb1 == IF hs # 0 /\ ~paired THEN tok.pb \o utf8_replacement_char ELSE tok.pb
    IN  IF u >= 2048 /\ IS_HIGH_SURROGATE(u)
        THEN TokGo([tok EXCEPT !.pb = pb1, !.high_surrogate = u, !.ucs_char = 0, !.st_pos = 0],
                   "escape_unicode_need_escape")
        ELSE TokGo([tok EXCEPT !.pb = pb1 \o Utf8(u), !.high_surrogate = 0, !.st_pos = 0],
                   TokTop(tok).saved)

RECURSIVE TokStep(_, _)
TokStep(tok, c) ==
    LET top == TokTop(tok)
        st == top.state
    IN  CASE st = "eatws" ->
               IF is_ws_char(c) THEN tok
               ELSE IF c = "/" THEN TokGo([tok EXCEPT !.pb = <<c>>], "comment_start")
               ELSE TokStep(TokGo(tok, top.saved), c)
          [] st = "start" ->
               IF c = "{" THEN TokCur(TokAfter(tok, "object_field_start"), xjs_new_object)
               ELSE IF c = "[" THEN TokCur(TokAfter(tok, "array"), xjs_new_array)
               ELSE IF c \in {"I", "i"}
               THEN TokStep(TokGo([tok EXCEPT !.pb = <<>>, !.st_pos = 0], "inf"), c)
               ELSE IF c \in {"N", "n"}
               THEN TokStep(TokGo([tok EXCEPT !.pb = <<>>, !.st_pos = 0], "null"), c)
               ELSE IF c \in {"'", "\""}
               THEN TokGo([tok EXCEPT !.pb = <<>>, !.quote_char = c], "string")
               ELSE IF c \in {"T", "t", "F", "f"}
               THEN TokStep(TokGo([tok EXCEPT !.pb = <<>>, !.st_pos = 0], "boolean"), c)
               ELSE IF c \in Digits \cup {"-"}
               THEN TokStep(TokGo([tok EXCEPT !.pb = <<>>, !.is_double = FALSE,
                                              !.is_exponent = FALSE, !.neg_sign_ok = TRUE,
                                              !.pos_sign_ok = FALSE, !.case_len = 0],
                                  "number"), c)
               ELSE TokFail(tok)
          [] st = "finish" ->
               IF TokDepth(tok) = 0 THEN [tok EXCEPT !.out = TRUE]
               ELSE TokStep(TokPop(tok), c)
          [] st = "inf" ->
               IF tok.st_pos < Len(json_inf_str)
               THEN IF tolower(c) = tolower(json_inf_str[tok.st_pos + 1])
                    THEN [tok EXCEPT !.st_pos = @ + 1]
                    ELSE TokFail(tok)
               ELSE LET neg == tok.pb # <<>> /\ tok.pb[1] = "-"
                        v == DoubleVal(IF neg THEN <<"-">> \o json_inf_str ELSE json_inf_str)
                    IN  TokStep(TokCur(TokAfter(tok, "finish"), v), c)
          [] st = "null" ->
               LET pb == Append(tok.pb, c)
                   size == Min(tok.st_pos + 1, Len(json_null_str))
                   size_nan == Min(tok.st_pos + 1, Len(json_nan_str))
                   t == [tok EXCEPT !.pb = pb]
               IN  IF CaseEqual(json_null_str, pb, size)
                   THEN IF tok.st_pos = Len(json_null_str)
                        THEN TokStep(TokCur(TokAfter(t, "finish"), Null), c)
                        ELSE [t EXCEPT !.st_pos = @ + 1]
                   ELSE IF CaseEqual(json_nan_str, pb, size_nan)
                   THEN IF tok.st_pos = Len(json_nan_str)
                        THEN TokStep(TokCur(TokAfter(t, "finish"), DoubleVal(json_nan_str)), c)
                        ELSE [t EXCEPT !.st_pos = @ + 1]
                   ELSE TokFail(t)
          [] st = "boolean" ->
               LET pb == Append(tok.pb, c)
                   size1 == Min(tok.st_pos + 1, Len(json_true_str))
                   size2 == Min(tok.st_pos + 1, Len(json_false_str))
                   t == [tok EXCEPT !.pb = pb]
               IN  IF CaseEqual(json_true_str, pb, size1)
                   THEN IF tok.st_pos = Len(json_true_str)
                        THEN TokStep(TokCur(TokAfter(t, "finish"), BoolVal(TRUE)), c)
                        ELSE [t EXCEPT !.st_pos = @ + 1]
                   ELSE IF CaseEqual(json_false_str, pb, size2)
                   THEN IF tok.st_pos = Len(json_false_str)
                        THEN TokStep(TokCur(TokAfter(t, "finish"), BoolVal(FALSE)), c)
                        ELSE [t EXCEPT !.st_pos = @ + 1]
                   ELSE TokFail(t)
          [] st = "comment_start" ->
               IF c = "*" THEN TokGo([tok EXCEPT !.pb = Append(@, c)], "comment")
               ELSE IF c = "/" THEN TokGo([tok EXCEPT !.pb = Append(@, c)], "comment_eol")
               ELSE TokFail(tok)
          [] st = "comment" ->
               IF c = NUL THEN TokEof(tok)
               ELSE IF c = "*" THEN TokGo([tok EXCEPT !.pb = Append(@, c)], "comment_end")
               ELSE [tok EXCEPT !.pb = Append(@, c)]
          [] st = "comment_eol" ->
               IF c = NUL THEN TokEof(tok)
               ELSE IF c = "\n" THEN TokGo(tok, "eatws")
               ELSE [tok EXCEPT !.pb = Append(@, c)]
          [] st = "comment_end" ->
               IF c = NUL THEN TokEof(tok)
               ELSE IF c = "/" THEN TokGo([tok EXCEPT !.pb = Append(@, c)], "eatws")
               ELSE TokGo([tok EXCEPT !.pb = Append(@, c)], "comment")
          [] st = "string" ->
               IF c = tok.quote_char
               THEN TokCur(TokAfter(tok, "finish"), xjs_new_string(tok.pb))
               ELSE IF c = "\\"
               THEN TokGo([tok EXCEPT !.stack[Len(tok.stack)].saved = "string"], "string_escape")
               ELSE IF c = NUL THEN TokFail(tok)
               ELSE [tok EXCEPT !.pb = Append(@, c)]
          [] st = "string_escape" ->
               IF c \in {"\"", "\\", "/"} THEN TokGo([tok EXCEPT !.pb = Append(@, c)], top.saved)
               ELSE IF c = "b" THEN TokGo([tok EXCEPT !.pb = Append(@, ByteName(8))], top.saved)
               ELSE IF c = "n" THEN TokGo([tok EXCEPT !.pb = Append(@, "\n")], top.saved)
               ELSE IF c = "r" THEN TokGo([tok EXCEPT !.pb = Append(@, "\r")], top.saved)
               ELSE IF c = "t" THEN TokGo([tok EXCEPT !.pb = Append(@, "\t")], top.saved)
               ELSE IF c = "f" THEN TokGo([tok EXCEPT !.pb = Append(@, "\f")], top.saved)
               ELSE IF c = "u"
               THEN TokGo([tok EXCEPT !.ucs_char = 0, !.st_pos = 0], "escape_unicode")
               ELSE TokFail(tok)
          [] st = "escape_unicode" ->
               IF ~is_hex_char(c) THEN TokFail(tok)
               ELSE LET shift == IF tok.st_pos = 0 THEN 4096
                                 ELSE IF tok.st_pos = 1 THEN 256
                                 ELSE IF tok.st_pos = 2 THEN 16 ELSE 1
                        t == [tok EXCEPT !.ucs_char = @ + jt_hexdigit(c) * shift,
                                         !.st_pos = @ + 1]
                    IN  IF t.st_pos >= 4 THEN UnicodeDone(t) ELSE t
          [] st = "escape_unicode_need_escape" ->
               IF c # "\\"
               THEN TokStep(TokGo([tok EXCEPT !.pb = @ \o utf8_replacement_char,
                                              !.high_surrogate = 0, !.ucs_char = 0,
                                              !.st_pos = 0], top.saved), c)
               ELSE TokGo(tok, "escape_unicode_need_u")
          [] st = "escape_unicode_need_u" ->
               IF c # "u"
               THEN TokStep(TokGo([tok EXCEPT !.pb = @ \o utf8_replacement_char,
                                              !.high_surrogate = 0, !.ucs_char = 0,
                                              !.st_pos = 0], "string_escape"), c)
               ELSE TokGo(tok, "escape_unicode")
          [] st = "number" ->
               IF IsNumberChar(tok, c) THEN TakeNumberChar(tok, c)
               ELSE IF TokDepth(tok) > 0 /\ c \notin {",", "]", "}", "/", "I", "i"} /\ ~is_ws_char(c)
               THEN TokFail(tok)
               ELSE IF tok.pb[1] = "-" /\ tok.case_len <= 1 /\ c \in {"i", "I"}
               THEN TokStep(TokGo([tok EXCEPT !.st_pos = 0], "inf"), c)
               ELSE LET n == NumberValue(tok)
                    IN  IF n.ok THEN TokStep(TokCur(TokAfter(tok, "finish"), n.val), c)
                        ELSE TokFail(tok)
          [] st \in {"array", "array_after_sep"} ->
               IF c = "]" THEN TokAfter(tok, "finish")
               ELSE IF TokDepth(tok) >= JSON_TOKENER_DEFAULT_DEPTH - 1 THEN TokFail(tok)
               ELSE TokStep(TokPush(TokGo(tok, "array_add")), c)
          [] st = "array_sep" ->
               IF c = "]" THEN TokAfter(tok, "finish")
               ELSE IF c = "," THEN TokAfter(tok, "array_after_sep")
               ELSE TokFail(tok)
          [] st \in {"object_field_start", "object_field_start_after_sep"} ->
               IF c = "}" THEN TokAfter(tok, "finish")
               ELSE IF c \in {"\"", "'"}
               THEN TokGo([tok EXCEPT !.pb = <<>>, !.quote_char = c], "object_field")
               ELSE TokFail(tok)
          [] st = "object_field" ->
               IF c = tok.quote_char
               THEN TokAfter([tok EXCEPT !.stack[Len(tok.stack)].field = UpToNul(tok.pb)],
                             "object_field_end")
               ELSE IF c = "\\"
               THEN TokGo([tok EXCEPT !.stack[Len(tok.stack)].saved = "object_field"],
                          "string_escape")
               ELSE IF c = NUL THEN TokFail(tok)
               ELSE [tok EXCEPT !.pb = Append(@, c)]
          [] st = "object_field_end" ->
               IF c = ":" THEN TokAfter(tok, "object_value") ELSE TokFail(tok)
          [] st = "object_value" ->
               IF TokDepth(tok) >= JSON_TOKENER_DEFAULT_DEPTH - 1 THEN TokFail(tok)
               ELSE TokStep(TokPush(TokGo(tok, "object_value_add")), c)
          [] st = "object_sep" ->
               IF c = "}" THEN TokAfter(tok, "finish")
               ELSE IF c = "," THEN TokAfter(tok, "object_field_start_after_sep")
               ELSE TokFail(tok)
          [] OTHER -> TokFail(tok)

\* The loop of json_tokener_parse_ex over the characters of the buffer, left at out.
RECURSIVE TokFeed(_, _, _)
TokFeed(tok, chunk, i) ==
    IF i > Len(chunk) \/ tok.out THEN tok
    ELSE TokFeed(TokStep(tok, chunk[i]), chunk, i + 1)

\* PEEK_CHAR at the end of the buffer: success after a whole value at depth 0,
\* else continue.
TokAtEnd(tok) ==
    IF tok.out THEN tok
    ELSE [tok EXCEPT !.err = IF /\ TokDepth(tok) = 0 /\ TokTop(tok).state = "eatws"
                                  /\ TokTop(tok).saved = "finish"
                               THEN "success" ELSE "continue"]

\* The out: label: after success the current value is returned and the levels are
\* reset, else NULL is returned.
TokReturn(tok) ==
    IF tok.err = "success"
    THEN [tok EXCEPT !.ret = tok.stack[Len(tok.stack)].cur, !.stack = <<TokLevel>>]
    ELSE tok

\* json_tokener_parse_ex(tok, buf, rlen): the tokenizer after the call, with what
\* the call returned in ret.
json_tokener_parse_ex(tok, chunk) ==
    TokReturn(TokAtEnd(TokFeed(ResumeNumber([tok EXCEPT !.err = "success", !.out = FALSE,
                                                        !.ret = Null]),
                               chunk, 1)))

\* json_tokener_get_error(tok)
json_tokener_get_error(tok) == tok.err

\* The value json_tokener_parse_ex returned.
TokValue(tok) == tok.ret

(***************************************************************************)
(* parse_envfile: the chunked JSON reader.                                 *)
(***************************************************************************)
\* sizeof(buf) of parse_envfile and read_stdin
BufSize == 128

TokErrors == {"success", "continue", "error"}

\* A mutant of EnvfileLoop: every chunk is given to a tokenizer reset to its start.
RECURSIVE EnvfileLoopFresh(_, _, _, _)
EnvfileLoopFresh(tok, rest, rv, err) ==
    IF rest = <<>> THEN [rv |-> rv, err |-> err]
    ELSE LET rlen == Min(BufSize, Len(rest))
             tok2 == json_tokener_parse_ex(xjs_new_tokener, SubSeq(rest, 1, rlen))
             err2 == json_tokener_get_error(tok2)
         IN  IF err2 # "continue" THEN [rv |-> TokValue(tok2), err |-> err2]
             ELSE EnvfileLoopFresh(tok2, SubSeq(rest, rlen + 1, Len(rest)), TokValue(tok2), err2)

\* The read loop: rv and err as they stand when the loop is left.
RECURSIVE EnvfileLoop(_, _, _, _)

\* An iteration from json_tokener_get_error on; tok is the tokenizer after the call
\* of json_tokener_parse_ex on the first rlen bytes of rest.
EnvfileChunk(tok, rest, rlen) ==
    IF json_tokener_get_error(tok) # "continue"
    THEN [rv |-> TokValue(tok), err |-> json_tokener_get_error(tok)]
    ELSE EnvfileLoop(tok, SubSeq(rest, rlen + 1, Len(rest)), TokValue(tok),
                     json_tokener_get_error(tok))

EnvfileLoop(tok, rest, rv, err) ==
    IF rest = <<>> THEN [rv |-> rv, err |-> err]
    ELSE EnvfileChunk(json_tokener_parse_ex(tok, SubSeq(rest, 1, Min(BufSize, Len(rest)))),
                      rest, Min(BufSize, Len(rest)))

\* uninit is the indeterminate value err holds when no chunk was read.
EnvfileRead(bytes, uninit) == EnvfileLoop(xjs_new_tokener, bytes, Null, uninit)

\* A mutant of parse_envfile: the type of the value is not checked.
parse_envfile_anytype(bytes, uninit) ==
    LET r == EnvfileRead(bytes, uninit)
    IN  IF r.err # "success" THEN Null ELSE r.rv

\* The test after the loop: the value is put and NULL returned unless the loop was
\* left in success with an object.
EnvfileResult(r) ==
    IF r.err # "success" \/ ~json_object_is_type(r.rv, "object") THEN Null ELSE r.rv

parse_envfile(bytes, uninit) == EnvfileResult(EnvfileRead(bytes, uninit))

(***************************************************************************)
(* Source handles and the standard input slot.  A pointer is <<>> (NULL)   *)
(* or a one-element sequence.                                              *)
(***************************************************************************)
NULL == <<>>

Ptr(x) == <<x>>

Deref(p) == p[1]

\* uc_source_new_buffer / uc_source_new_file: a handle over bytes, off = 0.
SourceOver(id, name, bytes) == Ptr([id |-> id, name |-> name, bytes |-> bytes, off |-> 0])

\* A mutant of read_stdin: the slot is not looked at.
read_stdin_unguarded(ptr, stream) ==
    [ok |-> TRUE, ptr |-> IF stream = <<>> THEN ptr ELSE Ptr(stream),
     bytes |-> stream, stream |-> <<>>, read |-> TRUE]

\* read_stdin(&stdin): ptr is the slot, stream what standard input still holds.
\* The slot stays NULL when nothing was read (xrealloc is never called).
read_stdin(ptr, stream) ==
    IF ptr # NULL
    THEN [ok |-> FALSE, ptr |-> ptr, bytes |-> <<>>, stream |-> stream, read |-> FALSE]
    ELSE [ok |-> TRUE, ptr |-> IF stream = <<>> THEN NULL ELSE Ptr(stream),
          bytes |-> stream, stream |-> <<>>, read |-> TRUE]

(***************************************************************************)
(* register_variable and globals_init                                      *)
(***************************************************************************)
\* The letters of the C locale.
Letters == {"a", "b", "c", "d", "e", "f", "g", "h", "i", "j", "k", "l", "m",
            "n", "o", "p", "q", "r", "s", "t", "u", "v", "w", "x", "y", "z",
            "A", "B", "C", "D", "E", "F", "G", "H", "I", "J", "K", "L", "M",
            "N", "O", "P", "Q", "R", "S", "T", "U", "V", "W", "X", "Y", "Z"}

isalnum(ch) == ch \in Letters \cup Digits

\* A mutant of Sanitize: only the first character is rewritten.
SanitizeFirst(key) ==
    [i \in 1..Len(key) |-> IF i > 1 \/ isalnum(key[i]) \/ key[i] = "_" THEN key[i] ELSE "_"]

\* The loop of register_variable over the copy of the key.
Sanitize(key) ==
    [i \in 1..Len(key) |-> IF ~isalnum(key[i]) /\ key[i] # "_" THEN "_" ELSE key[i]]

\* A mutant of register_variable: a name globals already holds keeps its value.
register_variable_first(scope, key, val, name) ==
    IF name = <<>> \/ HasKey(scope, Sanitize(name[1])) THEN scope
    ELSE json_object_object_add(scope, Sanitize(name[1]), val)

\* name is what strdup(key) gave: NULL, or a pointer to a copy of key.  Without a
\* copy the function returns and the scope is as before.
register_variable(scope, key, val, name) ==
    IF name = <<>> THEN scope
    ELSE json_object_object_add(scope, Sanitize(name[1]), val)

\* LIB_SEARCH_PATH is set by the build; a short list with an empty segment.
LIB_SEARCH_PATH == <<"a", ":", ":", "b">>

REQUIRE_SEARCH_PATH == <<"R", "E", "Q", "U", "I", "R", "E", "_", "S", "E", "A", "R", "C", "H", "_", "P", "A", "T", "H">>

RECURSIVE SplitPath(_, _, _, _)
SplitPath(path, p, last, arr) ==
    IF p > Len(path)
    THEN json_object_array_add(arr, xjs_new_string(SubSeq(path, last, p - 1)))
    ELSE IF path[p] = ":"
    THEN SplitPath(path, p + 1, p + 1,
                   json_object_array_add(arr, xjs_new_string(SubSeq(path, last, p - 1))))
    ELSE SplitPath(path, p + 1, last, arr)

globals_init(scope) ==
    json_object_object_add(scope, REQUIRE_SEARCH_PATH,
                           SplitPath(LIB_SEARCH_PATH, 1, 1, xjs_new_array))

\* json_object_object_foreach(env, key, val) register_variable(globals, key, val)
\* strdup(key): NULL when the allocation fails, else a pointer to a copy.
strdup(key, fails) == IF fails THEN <<>> ELSE <<key>>

\* failed holds the places of the keys whose strdup fails.
RECURSIVE RegisterAll(_, _, _, _)
RegisterAll(scope, items, i, failed) ==
    IF i > Len(items) THEN scope
    ELSE RegisterAll(register_variable(scope, items[i].k, items[i].v,
                                       strdup(items[i].k, i \in failed)),
                     items, i + 1, failed)

\* The names the standard library binds (two of them stand for the list).
LibNames == <<<<"p", "r", "i", "n", "t">>, <<"i", "n", "t">>>>

\* uc_lib_init(scope): every library function is bound under its name.  The
\* installer is not part of src/: whether it replaces an entry the scope already
\* holds under the name or leaves it is not known, and replace says which.
RECURSIVE uc_lib_init_from(_, _, _)
uc_lib_init_from(scope, i, replace) ==
    IF i > Len(LibNames) THEN scope
    ELSE IF HasKey(scope, LibNames[i]) /\ ~replace
    THEN uc_lib_init_from(scope, i + 1, replace)
    ELSE uc_lib_init_from(json_object_object_add(scope, LibNames[i], CFunction(LibNames[i])),
                          i + 1, replace)

uc_lib_init(scope, replace) == uc_lib_init_from(scope, 1, replace)

\* json_object_object_foreach(o, key, val) json_object_object_add(p, key, val)
RECURSIVE MergeInto(_, _, _)
MergeInto(p, items, i) ==
    IF i > Len(items) THEN p
    ELSE MergeInto(json_object_object_add(p, items[i].k, items[i].v), items, i + 1)

(***************************************************************************)
(* The shebang probe of parse.  fgetc gives a byte or "EOF"; a char holds  *)
(* it narrowed: where char is signed 0xFF reads as -1, which is EOF, and   *)
(* where it is unsigned EOF reads as 255, which is the byte 0xFF.          *)
(***************************************************************************)
EOF == "EOF"

fgetc(stream) == IF stream = <<>> THEN EOF ELSE Head(stream)

Advance(stream) == IF stream = <<>> THEN stream ELSE Tail(stream)

CharOf(r, signed) ==
    IF r \in {EOF, "xFF"} THEN (IF signed THEN EOF ELSE "xFF") ELSE r

\* ungetc(EOF, fp) leaves the stream unchanged.
ungetc(c, stream) == IF c = EOF THEN stream ELSE <<c>> \o stream

\* while ((c = fgetc(src->fp)) != EOF) { src->off++; if (c == '\n') break; }
RECURSIVE SkipLine(_, _, _)
SkipLine(stream, off, signed) ==
    LET c == CharOf(fgetc(stream), signed)
    IN  IF c = EOF THEN [bytes |-> Advance(stream), off |-> off, hang |-> FALSE]
        ELSE IF stream = <<>> THEN [bytes |-> stream, off |-> off + 1, hang |-> TRUE]
        ELSE IF c = "\n" THEN [bytes |-> Tail(stream), off |-> off + 1, hang |-> FALSE]
        ELSE SkipLine(Tail(stream), off + 1, signed)

\* Lines 108-122 of parse.
SkipShebang(stream, off, signed) ==
    LET c == CharOf(fgetc(stream), signed)
        c2 == CharOf(fgetc(Advance(stream)), signed)
        rest == Advance(Advance(stream))
    IN  IF c = "#" /\ c2 = "!" THEN SkipLine(rest, off, signed)
        ELSE [bytes |-> ungetc(c, ungetc(c2, rest)), off |-> off, hang |-> FALSE]

\* A mutant of ExecResult: the result of the engine is passed on as it is.
ExecResultRaw(r) == r

\* rc of parse after uc_vm_execute returned r.
ExecResult(r) == IF r # 0 THEN 1 ELSE 0

(***************************************************************************)
(* The state of one run of main.                                           *)
(***************************************************************************)
VARIABLES
    argc,        \* the number of words of argv, the program name included
    opts,        \* what getopt hands out in order: [opt, arg]; opt is "?" for a word
                 \* getopt refuses (an unknown letter, a missing argument)
    pos,         \* argv[optind] after the options: NULL or Ptr(path)
    fs,          \* the files that can be opened: path -> bytes
    charSigned,  \* whether char is signed in this build
    stdinStream, \* what standard input still holds
    pc,          \* where main is
    idx,         \* how many options getopt has handed out
    source, shebang, env, modules, config, stdinPtr, rv,
    errs,        \* the diagnostics written to stderr, in order
    usage,       \* how often print_usage ran
    created,     \* how many source handles were created
    released,    \* the ids of the handles given to uc_source_put, in order
    captures,    \* the bytes each successful read_stdin drained
    lastEnv,     \* the last parse_envfile call: NULL or Ptr([opt, err, type, val, before])
    globals, rootscope, rc,
    nomem,       \* the places in env of the keys whose strdup in register_variable
                 \* gave NULL
    compiled,    \* NULL or Ptr([bytes, off, ok]): what uc_compile was given
    executed,    \* NULL or Ptr([r, globals, rootscope, modules]): the uc_vm_execute call
    log          \* the driver's steps in order

vars == <<argc, opts, pos, fs, charSigned, stdinStream, pc, idx, source, shebang, env,
          modules, config, stdinPtr, rv, errs, usage, created, released, captures,
          lastEnv, globals, rootscope, rc, nomem, compiled, executed, log>>

inputs == <<argc, opts, pos, fs, charSigned>>

mainVars == <<source, shebang, env, modules, config, stdinPtr, stdinStream, created,
              released, captures, lastEnv, errs, usage>>

parseVars == <<globals, rootscope, rc, nomem, compiled, executed, log>>

Opt(o, a) == [opt |-> o, arg |-> a]

\* The results uc_vm_execute can give.
ExecResults == {-1, 0, 1, 2}

\* strchr(optarg, '='): the index of the first '=', 0 when there is none.
strchr_eq(arg) ==
    IF \E i \in 1..Len(arg) : arg[i] = "="
    THEN CHOOSE i \in 1..Len(arg) : arg[i] = "=" /\ \A j \in 1..(i - 1) : arg[j] # "="
    ELSE 0

\* optarg after "*c++ = 0": the text before the first '='.
OptPrefix(arg) == IF strchr_eq(arg) > 0 THEN SubSeq(arg, 1, strchr_eq(arg) - 1) ELSE arg

\* c: the text after the first '=', or all of optarg.
OptPayload(arg) ==
    IF strchr_eq(arg) > 0 THEN SubSeq(arg, strchr_eq(arg) + 1, Len(arg)) ELSE arg

\* c > optarg && optarg[0]
Namespaced(arg) == strchr_eq(arg) > 0 /\ OptPrefix(arg) # <<>>

uc_source_new_file(id, path) ==
    IF path \in DOMAIN fs THEN SourceOver(id, path, fs[path]) ELSE NULL

Fatal(diags) ==
    /\ errs' = errs \o diags
    /\ rv' = 1
    /\ pc' = "out"

(***************************************************************************)
(* main, lines 245-249: no arguments at all.                               *)
(***************************************************************************)
Start ==
    /\ pc = "start"
    /\ IF argc = 1
       THEN /\ usage' = usage + 1
            /\ pc' = "out"
       ELSE /\ pc' = "getopt"
            /\ UNCHANGED usage
    /\ UNCHANGED <<inputs, idx, source, shebang, env, modules, config, stdinPtr,
                   stdinStream, rv, errs, created, released, captures, lastEnv, parseVars>>

Next1 == idx < Len(opts) /\ pc = "getopt"

Cur == opts[idx + 1]

\* getopt gave '?': it has written its own message and the switch has no case for it.
OptUnknown ==
    /\ Next1 /\ Cur.opt = "?"
    /\ idx' = idx + 1
    /\ errs' = Append(errs, "getopt_error")
    /\ UNCHANGED <<inputs, pc, source, shebang, env, modules, config, stdinPtr, stdinStream,
                   rv, usage, created, released, captures, lastEnv, parseVars>>

\* A mutant of OptH: usage is printed and the option loop goes on.
OptHContinue ==
    /\ Next1 /\ Cur.opt = "h"
    /\ usage' = usage + 1
    /\ idx' = idx + 1
    /\ UNCHANGED <<inputs, pc, source, shebang, env, modules, config, stdinPtr, stdinStream,
                   rv, errs, created, released, captures, lastEnv, parseVars>>

\* case 'h'
OptH ==
    /\ Next1 /\ Cur.opt = "h"
    /\ usage' = usage + 1
    /\ idx' = idx + 1
    /\ pc' = "out"
    /\ UNCHANGED <<inputs, source, shebang, env, modules, config, stdinPtr, stdinStream,
                   rv, errs, created, released, captures, lastEnv, parseVars>>

\* case 'i'
OptI ==
    /\ Next1 /\ Cur.opt = "i"
    /\ idx' = idx + 1
    /\ LET conflict == IF source # NULL THEN <<"exclusive">> ELSE <<>>
           in == read_stdin(stdinPtr, stdinStream)
       IN  IF Cur.arg = <<"-">>
           THEN /\ stdinPtr' = in.ptr
                /\ stdinStream' = in.stream
                /\ captures' = IF in.ok THEN Append(captures, in.bytes) ELSE captures
                /\ IF in.ok
                   THEN /\ source' = SourceOver(created + 1, <<"[stdin]">>, in.bytes)
                        /\ created' = created + 1
                        /\ errs' = errs \o conflict
                        /\ UNCHANGED <<rv, pc>>
                   ELSE /\ source' = NULL
                        /\ Fatal(conflict \o <<"stdin_once", "failed_open">>)
                        /\ UNCHANGED created
           ELSE /\ source' = uc_source_new_file(created + 1, Cur.arg)
                /\ IF source' # NULL
                   THEN /\ created' = created + 1
                        /\ errs' = errs \o conflict
                        /\ UNCHANGED <<rv, pc>>
                   ELSE /\ Fatal(conflict \o <<"failed_open">>)
                        /\ UNCHANGED created
                /\ UNCHANGED <<stdinPtr, stdinStream, captures>>
    /\ UNCHANGED <<inputs, shebang, env, modules, config, released, usage, lastEnv, parseVars>>

\* case 'l', case 'r', case 'S'
OptFlag ==
    /\ Next1 /\ Cur.opt \in {"l", "r", "S"}
    /\ idx' = idx + 1
    /\ config' = CASE Cur.opt = "l" -> [config EXCEPT !.lstrip_blocks = FALSE]
                   [] Cur.opt = "r" -> [config EXCEPT !.trim_blocks = FALSE]
                   [] Cur.opt = "S" -> [config EXCEPT !.strict_declarations = TRUE]
    /\ UNCHANGED <<inputs, pc, source, shebang, env, modules, stdinPtr, stdinStream, rv,
                   errs, usage, created, released, captures, lastEnv, parseVars>>

\* A mutant of OptS: a source an earlier option gave is kept.
OptSKeepFirst ==
    /\ Next1 /\ Cur.opt = "s"
    /\ idx' = idx + 1
    /\ errs' = IF source # NULL THEN Append(errs, "exclusive") ELSE errs
    /\ source' = IF source # NULL THEN source
                 ELSE SourceOver(created + 1, <<"[-s argument]">>, Cur.arg)
    /\ created' = IF source # NULL THEN created ELSE created + 1
    /\ UNCHANGED <<inputs, pc, shebang, env, modules, config, stdinPtr, stdinStream, rv,
                   usage, released, captures, lastEnv, parseVars>>

\* case 's'
OptS ==
    /\ Next1 /\ Cur.opt = "s"
    /\ idx' = idx + 1
    /\ errs' = IF source # NULL THEN Append(errs, "exclusive") ELSE errs
    /\ source' = SourceOver(created + 1, <<"[-s argument]">>, Cur.arg)
    /\ created' = created + 1
    /\ UNCHANGED <<inputs, pc, shebang, env, modules, config, stdinPtr, stdinStream, rv,
                   usage, released, captures, lastEnv, parseVars>>

\* The object the keys of a request go to and where it hangs in env (lines 338-351).
MergeRequest(e, arg, o) ==
    LET base == IF e # Null THEN e ELSE xjs_new_object
    IN  IF Namespaced(arg)
        THEN json_object_object_add(base, OptPrefix(arg), MergeInto(xjs_new_object, o.items, 1))
        ELSE MergeInto(base, o.items, 1)

\* case 'e' and case 'E' from the call of parse_envfile on: r is what the read loop
\* left, o what parse_envfile returned.
OptEParsed(envfile, r, o) ==
    /\ created' = created + 1
    /\ released' = Append(released, Deref(envfile).id)
    /\ lastEnv' = Ptr([opt |-> Cur.opt, err |-> r.err, type |-> r.rv.type,
                       val |-> o, before |-> env,
                       text |-> Deref(envfile).bytes])
    /\ IF o = Null
       THEN /\ Fatal(<<"invalid_json", Cur.opt>>)
            /\ UNCHANGED env
       ELSE /\ env' = MergeRequest(env, Cur.arg, o)
            /\ UNCHANGED <<rv, pc, errs>>

\* case 'e' and case 'E'
OptE ==
    /\ Next1 /\ Cur.opt \in {"e", "E"}
    /\ idx' = idx + 1
    /\ LET c == OptPayload(Cur.arg)
           in == read_stdin(stdinPtr, stdinStream)
           fromStdin == Cur.opt = "E" /\ c = <<"-">>
           envfile == CASE Cur.opt = "e" -> SourceOver(created + 1, <<"[-e argument]">>, c)
                        [] fromStdin -> IF in.ok THEN SourceOver(created + 1, <<"[stdin]">>, in.bytes)
                                        ELSE NULL
                        [] OTHER -> uc_source_new_file(created + 1, c)
       IN  /\ stdinPtr' = IF fromStdin THEN in.ptr ELSE stdinPtr
           /\ stdinStream' = IF fromStdin THEN in.stream ELSE stdinStream
           /\ captures' = IF fromStdin /\ in.ok THEN Append(captures, in.bytes) ELSE captures
           /\ IF envfile = NULL
              THEN /\ Fatal((IF fromStdin THEN <<"stdin_once">> ELSE <<>>) \o <<"failed_open">>)
                   /\ UNCHANGED <<created, released, lastEnv, env>>
              ELSE \E uninit \in TokErrors :
                       OptEParsed(envfile, EnvfileRead(Deref(envfile).bytes, uninit),
                                  parse_envfile(Deref(envfile).bytes, uninit))
    /\ UNCHANGED <<inputs, source, shebang, modules, config, usage, parseVars>>

\* A mutant of AddModule: a name the list already holds is not added again.
AddModuleOnce(m, arg) ==
    IF m # Null /\ \E i \in 1..Len(m.items) : m.items[i].v = xjs_new_string(arg)
    THEN m
    ELSE json_object_array_add(IF m # Null THEN m ELSE xjs_new_array, xjs_new_string(arg))

\* Lines 356-358: the list is made at the first -m and the name appended.
AddModule(m, arg) ==
    json_object_array_add(IF m # Null THEN m ELSE xjs_new_array, xjs_new_string(arg))

\* case 'm'
OptM ==
    /\ Next1 /\ Cur.opt = "m"
    /\ idx' = idx + 1
    /\ modules' = AddModule(modules, Cur.arg)
    /\ UNCHANGED <<inputs, pc, source, shebang, env, config, stdinPtr, stdinStream, rv,
                   errs, usage, created, released, captures, lastEnv, parseVars>>

\* A mutant of UsePositional: a positional path is opened whatever the options gave.
UsePositionalAlways(src, p) == p # NULL

\* Line 364: the positional path counts only while no option gave a source.
UsePositional(src, p) == src = NULL /\ p # NULL

\* main, lines 364-380: the positional path and the missing source.
Resolve ==
    /\ pc = "getopt" /\ idx = Len(opts)
    /\ IF UsePositional(source, pos)
       THEN LET f == uc_source_new_file(created + 1, Deref(pos))
            IN  /\ source' = f
                /\ IF f # NULL
                   THEN /\ created' = created + 1
                        /\ shebang' = TRUE
                        /\ pc' = "parse"
                        /\ UNCHANGED <<rv, errs>>
                   ELSE /\ Fatal(<<"failed_open">>)
                        /\ UNCHANGED <<created, shebang>>
       ELSE /\ IF source = NULL
               THEN Fatal(<<"no_source">>)
               ELSE /\ pc' = "parse"
                    /\ UNCHANGED <<rv, errs>>
            /\ UNCHANGED <<source, created, shebang>>
    /\ UNCHANGED <<inputs, idx, env, modules, config, stdinPtr, stdinStream, usage,
                   released, captures, lastEnv, parseVars>>

(***************************************************************************)
(* parse, in the order of its statements.                                  *)
(***************************************************************************)
GLOBAL == <<"g", "l", "o", "b", "a", "l">>

\* Lines 99-123: the scopes, the virtual machine and the shebang probe.
ParseStart ==
    /\ pc = "parse"
    /\ globals' = xjs_new_object
    /\ rootscope' = NULL
    /\ rc' = 0
    /\ log' = Append(log, "uc_vm_init")
    /\ IF shebang
       THEN LET src == Deref(source)
                k == SkipShebang(src.bytes, src.off, charSigned)
            IN  /\ source' = Ptr([src EXCEPT !.bytes = k.bytes, !.off = k.off])
                /\ pc' = IF k.hang THEN "hang" ELSE "compile"
       ELSE /\ pc' = "compile"
            /\ UNCHANGED source
    /\ UNCHANGED <<inputs, idx, shebang, env, modules, config, stdinPtr, stdinStream, rv,
                   errs, usage, created, released, captures, lastEnv, nomem, compiled, executed>>

\* Lines 125-132: uc_compile reads the rest of the source; it fails or gives an entry.
ParseCompile ==
    /\ pc = "compile"
    /\ \E ok \in BOOLEAN :
         /\ compiled' = Ptr([bytes |-> Deref(source).bytes, off |-> Deref(source).off, ok |-> ok])
         /\ log' = Append(log, "uc_compile")
         /\ IF ok
            THEN /\ pc' = "globals"
                 /\ UNCHANGED <<rc, errs>>
            ELSE /\ rc' = 2
                 /\ errs' = Append(errs, "compile_error")
                 /\ pc' = "cleanup"
    /\ UNCHANGED <<inputs, idx, source, shebang, env, modules, config, stdinPtr,
                   stdinStream, rv, usage, created, released, captures, lastEnv,
                   globals, rootscope, nomem, executed>>

\* A mutant of BuildGlobals: the library is bound before the configuration keys.
BuildGlobalsLibFirst(g, e, replace, failed) ==
    IF e # Null THEN RegisterAll(uc_lib_init(globals_init(g), replace), e.items, 1, failed)
    ELSE uc_lib_init(globals_init(g), replace)

\* Lines 135-144: what globals holds before the root scope is made.
BuildGlobals(g, e, replace, failed) ==
    uc_lib_init(IF e # Null THEN RegisterAll(globals_init(g), e.items, 1, failed)
                ELSE globals_init(g),
                replace)

\* Lines 134-150: search path, configuration, library, then the root scope.  Either
\* behaviour of the library installer towards an existing entry is taken, and the
\* strdup of register_variable fails for any of the keys.
ParseGlobals ==
    /\ pc = "globals"
    /\ \E replace \in BOOLEAN, failed \in SUBSET (1..Len(env.items)) :
         /\ globals' = BuildGlobals(globals, env, replace, failed)
         /\ nomem' = failed
    /\ rootscope' = Ptr([parent |-> "globals",
                         jso |-> json_object_object_add(xjs_new_object, GLOBAL, globals')])
    /\ log' = log \o <<"globals_init">> \o (IF env # Null THEN <<"register_variables">> ELSE <<>>)
                  \o <<"uc_lib_init", "uc_protoref_new">>
    /\ pc' = "execute"
    /\ UNCHANGED <<inputs, idx, mainVars, rv, rc, compiled, executed>>

\* Lines 152-157.
ParseExecute ==
    /\ pc = "execute"
    /\ \E r \in ExecResults :
         /\ executed' = Ptr([r |-> r, globals |-> globals, rootscope |-> rootscope,
                             modules |-> modules])
         /\ rc' = ExecResult(r)
    /\ log' = Append(log, "uc_vm_execute")
    /\ pc' = "cleanup"
    /\ UNCHANGED <<inputs, idx, mainVars, rv, globals, rootscope, nomem, compiled>>

\* A mutant of CleanupSteps: the root scope is released whether or not it was made.
CleanupStepsAlwaysRoot(root) == <<"uc_vm_free", "put_globals", "put_rootscope">>

\* Lines 160-164: the releases of the label out, in the order of the statements.
CleanupSteps(root) ==
    <<"uc_vm_free", "put_globals">> \o (IF root # NULL THEN <<"put_rootscope">> ELSE <<>>)

\* Lines 159-166 and the assignment of line 382.
ParseCleanup ==
    /\ pc = "cleanup"
    /\ log' = log \o CleanupSteps(rootscope)
    /\ rv' = rc
    /\ pc' = "out"
    /\ UNCHANGED <<inputs, idx, mainVars, globals, rootscope, rc, nomem, compiled, executed>>

\* Lines 384-390.
Out ==
    /\ pc = "out"
    /\ released' = IF source # NULL THEN Append(released, Deref(source).id) ELSE released
    /\ log' = log \o <<"put_modules", "put_env", "put_source">>
    /\ pc' = "done"
    /\ UNCHANGED <<inputs, idx, source, shebang, env, modules, config, stdinPtr,
                   stdinStream, rv, errs, usage, created, captures, lastEnv,
                   globals, rootscope, rc, nomem, compiled, executed>>

(***************************************************************************)
(* The command lines, files and standard inputs the runs start from.       *)
(***************************************************************************)
MaxMerge == 2

MaxStdin == 4

MaxFileLen == 4

MaxMisc == 3

ChunkSlack == 8

SeqsUpTo(S, n) == UNION {[1..k -> S] : k \in 0..n}

Q(s) == <<"\"">> \o s \o <<"\"">>

ObjText(k, v) == <<"{">> \o Q(k) \o <<":">> \o v \o <<"}">>

Pfx(p, t) == p \o <<"=">> \o t

Prog == <<"a">>

Prog2 == <<"b">>

PathF == <<"f">>

PathN == <<"n">>

PRINT == <<"p", "r", "i", "n", "t">>

\* {"1_b":2,"1-b":0}: two keys that sanitize to one name.
TwoKeys ==
    <<"{">> \o Q(<<"1", "_", "b">>) \o <<":", "2", ",">> \o Q(<<"1", "-", "b">>) \o <<":", "0", "}">>

\* Well-formed and ill-formed -e arguments.
InlineArgs ==
    { Pfx(<<"a">>, ObjText(<<"x">>, <<"1">>)),
      Pfx(<<"a">>, ObjText(<<"y">>, <<"2">>)),
      ObjText(<<"x">>, <<"1">>),
      ObjText(<<"x">>, <<"2">>),
      ObjText(<<"1", "-", "b">>, <<"1">>),
      ObjText(<<"1", "_", "b">>, <<"2">>),
      TwoKeys,
      ObjText(<<"k">>, Q(<<"a", "=", "b">>)),
      Pfx(<<>>, ObjText(<<"y">>, <<"1">>)),
      Pfx(<<"a", "-">>, ObjText(<<"y">>, <<"1">>)),
      ObjText(PRINT, <<"1">>),
      ObjText(<<>>, <<"1">>),
      <<"{", "}", "x">>,
      <<"[", "1", "]">>,
      <<"{", "\"", "x", "\"", ":">>,
      <<"{", "x", "}">>,
      <<"1">>,
      <<>> }

FileArgs == { <<"-">>, Pfx(<<"a">>, <<"-">>), PathF, Pfx(<<"a">>, PathF), PathN }

MergeOpts == {Opt("e", a) : a \in InlineArgs} \cup {Opt("E", a) : a \in FileArgs}

StdinOpts == { Opt("E", <<"-">>), Opt("E", Pfx(<<"a">>, <<"-">>)), Opt("i", <<"-">>),
               Opt("h", <<>>), Opt("s", Prog) }

StdinTexts == { <<>>, ObjText(<<"y">>, <<"2">>), <<"[", "1", "]">> }

Bytes == {"#", "!", "\n", "a", "xFF"}

MiscOpts == { Opt("l", <<>>), Opt("r", <<>>), Opt("S", <<>>), Opt("h", <<>>),
              Opt("m", <<"f", "o", "o">>), Opt("m", <<"b", "a", "r">>),
              Opt("s", Prog), Opt("i", PathN), Opt("i", PathF),
              Opt("e", ObjText(<<"x">>, <<"1">>)) }

FsWith(bytes) == [p \in {PathF} |-> bytes]

Pad(n) == [i \in 1..n |-> " "]

\* Texts whose JSON value starts up to ChunkSlack bytes before the end of the first chunk.
LongTexts ==
    { Pad(k) \o t : k \in (BufSize - ChunkSlack)..BufSize,
                    t \in { ObjText(<<"y">>, <<"1">>), ObjText(<<"y">>, Q(<<"a", "b">>)),
                            ObjText(<<>>, <<"t", "r", "u", "e">>),
                            ObjText(<<>>, <<"-", "1", "e", "+", "2">>),
                            <<"{", "\"", "y", "\"", ":", "1", "x", "}">>,
                            <<"{", "\"", "y", "\"", ":", "1">>,
                            <<"[", "1", ",", "2", ",", "1", "]">> } }

\* Merge requests followed by an inline program.
MergeRuns ==
    /\ opts \in {s \o <<Opt("s", Prog)>> : s \in SeqsUpTo(MergeOpts, MaxMerge)}
    /\ pos = NULL
    /\ fs = FsWith(ObjText(<<"y">>, <<"1">>))
    /\ stdinStream = ObjText(<<"y">>, <<"2">>)
    /\ charSigned = TRUE

\* Both users of standard input, in every order.
StdinRuns ==
    /\ opts \in SeqsUpTo(StdinOpts, MaxStdin)
    /\ pos = NULL
    /\ fs = FsWith(Prog)
    /\ stdinStream \in StdinTexts
    /\ charSigned = TRUE

\* Every short file, as the positional path, behind -i, on standard input or inline.
ShebangRuns ==
    \E bytes \in SeqsUpTo(Bytes, MaxFileLen) :
        /\ opts \in {<<>>, <<Opt("i", PathF)>>, <<Opt("i", <<"-">>)>>, <<Opt("s", bytes)>>}
        /\ pos = Ptr(PathF)
        /\ fs = FsWith(bytes)
        /\ stdinStream = bytes
        /\ charSigned \in BOOLEAN

\* A configuration file longer than one chunk of the reader.
ChunkRuns ==
    /\ opts \in {<<Opt("E", PathF), Opt("s", Prog)>>, <<Opt("E", Pfx(<<"a">>, PathF)), Opt("s", Prog)>>}
    /\ pos = NULL
    /\ fs \in {FsWith(t) : t \in LongTexts}
    /\ stdinStream = <<>>
    /\ charSigned = TRUE

\* The remaining options, with and without a positional path.
MiscRuns ==
    /\ opts \in SeqsUpTo(MiscOpts, MaxMisc)
    /\ pos \in {NULL, Ptr(PathF), Ptr(PathN)}
    /\ fs = FsWith(Prog2)
    /\ stdinStream = <<>>
    /\ charSigned = TRUE

BareOpts == { Opt("?", <<>>), Opt("l", <<>>) }

\* The words of argv: the program name, one word for a flag or a refused word, two
\* for an option with its argument, one for the path.
ArgCount(o, p) ==
    1 + Len(o) + Cardinality({j \in 1..Len(o) : o[j].opt \notin {"h", "l", "r", "S", "?"}})
      + (IF p # NULL THEN 1 ELSE 0)

\* Command lines without a source option: refused words and the word "--", which
\* ends the options and counts in argc only.
BareRuns ==
    /\ opts \in SeqsUpTo(BareOpts, MaxMisc)
    /\ pos \in {NULL, Ptr(PathF)}
    /\ argc \in {ArgCount(opts, pos), ArgCount(opts, pos) + 1}
    /\ fs = FsWith(Prog2)
    /\ stdinStream = <<>>
    /\ charSigned = TRUE

Init ==
    /\ \/ /\ MergeRuns \/ StdinRuns \/ ShebangRuns \/ ChunkRuns \/ MiscRuns
          /\ argc = ArgCount(opts, pos)
       \/ BareRuns
    /\ pc = "start"
    /\ idx = 0
    /\ source = NULL
    /\ shebang = FALSE
    /\ env = Null
    /\ modules = Null
    /\ config = [strict_declarations |-> FALSE, lstrip_blocks |-> TRUE, trim_blocks |-> TRUE]
    /\ stdinPtr = NULL
    /\ rv = 0
    /\ errs = <<>>
    /\ usage = 0
    /\ created = 0
    /\ released = <<>>
    /\ captures = <<>>
    /\ lastEnv = NULL
    /\ globals = Null
    /\ rootscope = NULL
    /\ rc = 0
    /\ nomem = {}
    /\ compiled = NULL
    /\ executed = NULL
    /\ log = <<>>

Next ==
    \/ Start
    \/ OptUnknown
    \/ OptH
    \/ OptI
    \/ OptFlag
    \/ OptS
    \/ OptE
    \/ OptM
    \/ Resolve
    \/ ParseStart
    \/ ParseCompile
    \/ ParseGlobals
    \/ ParseExecute
    \/ ParseCleanup
    \/ Out

Spec == Init /\ [][Next]_vars

(***************************************************************************)
(* What the claims speak of.                                               *)
(***************************************************************************)
Done == pc = "done"

SourceOpts == {j \in 1..Len(opts) : opts[j].opt \in {"i", "s"}}

\* The program source was taken from the bare positional path.
FromPositional == SourceOpts = {} /\ pos # NULL

LastSourceOpt == opts[CHOOSE j \in SourceOpts : \A k \in SourceOpts : k <= j]

\* The bytes of the program source as they were given.
OrigSource ==
    IF FromPositional THEN fs[Deref(pos)]
    ELSE IF LastSourceOpt.opt = "s" THEN LastSourceOpt.arg
    ELSE IF LastSourceOpt.arg = <<"-">> THEN captures[Len(captures)]
    ELSE fs[LastSourceOpt.arg]

StartsWithShebang(bytes) == Len(bytes) >= 2 /\ bytes[1] = "#" /\ bytes[2] = "!"

AfterFirstNewline(bytes) ==
    IF \E i \in 1..Len(bytes) : bytes[i] = "\n"
    THEN SubSeq(bytes, 1 + (CHOOSE i \in 1..Len(bytes) :
                              bytes[i] = "\n" /\ \A j \in 1..(i - 1) : bytes[j] # "\n"),
                Len(bytes))
    ELSE <<>>

\* The text request j was read from.
ReqText(j) ==
    IF opts[j].opt = "e" THEN OptPayload(opts[j].arg)
    ELSE IF OptPayload(opts[j].arg) = <<"-">> THEN captures[1]
    ELSE fs[OptPayload(opts[j].arg)]

ReqObject(j) == parse_envfile(ReqText(j), "error")

MergeReqs == {j \in 1..Len(opts) : opts[j].opt \in {"e", "E"}}

\* C1: every key a request supplied under a non-empty prefix is in the child object
\* stored under that prefix once all requests are processed, with the value of the
\* last request that supplied it.
C1_NamespaceAccumulates ==
    pc = "parse" =>
        \A j \in MergeReqs :
            Namespaced(opts[j].arg) =>
                \A k \in KeysOf(ReqObject(j)) :
                    LET child == json_object_object_get(env, OptPrefix(opts[j].arg))
                        same == {i \in MergeReqs : /\ Namespaced(opts[i].arg)
                                                   /\ OptPrefix(opts[i].arg) = OptPrefix(opts[j].arg)
                                                   /\ HasKey(ReqObject(i), k)}
                        last == CHOOSE i \in same : \A h \in same : h <= i
                    IN  /\ HasKey(child, k)
                        /\ json_object_object_get(child, k) = json_object_object_get(ReqObject(last), k)

\* C2: standard input is captured at most once: after one read_stdin returned a
\* handle no later call returns one.
C2_StdinCapturedOnce == Len(captures) <= 1

AsksBothStdin ==
    /\ \E j \in 1..Len(opts) : opts[j].opt = "E" /\ OptPayload(opts[j].arg) = <<"-">>
    /\ \E j \in 1..Len(opts) : opts[j] = Opt("i", <<"-">>)

InSeq(x, seq) == \E i \in 1..Len(seq) : seq[i] = x

\* C3 as stated: a command line with -E - and -i - ends with result 1 through the
\* stdin-already-consumed failure and never compiles or executes.
C3_FailsThroughStdinConsumed ==
    AsksBothStdin =>
        /\ compiled = NULL /\ executed = NULL
        /\ Done => rv = 1 /\ InSeq("stdin_once", errs)

\* C3 amended: a command line with -E - and -i - never reaches compilation or
\* execution, in either order; it ends with result 0 when -h is met first and
\* otherwise with result 1 at the first fatal option, which is a failed open (the
\* stdin-already-consumed failure among them) or an invalid configuration.
C3_BothStdinUsersNeverCompile ==
    AsksBothStdin =>
        /\ compiled = NULL /\ executed = NULL
        /\ pc \in {"start", "getopt", "out", "done"}
        /\ Done => \/ rv = 0 /\ usage = 1 /\ \A i \in 1..Len(errs) : errs[i] = "exclusive"
                   \/ /\ rv = 1 /\ usage = 0
                      /\ InSeq("failed_open", errs) \/ InSeq("invalid_json", errs)
                      /\ InSeq("stdin_once", errs) => InSeq("failed_open", errs)

\* -E - came first, was merged, and -i - then met the consumed slot.
C3_Witness ==
    /\ Done /\ AsksBothStdin /\ rv = 1
    /\ InSeq("stdin_once", errs)
    /\ opts[1].opt = "E" /\ env # Null

\* C4: a run that reached parse ends with 2 exactly when compilation failed, with 1
\* exactly when compilation succeeded and execution gave a non-zero result, else 0.
C4_ProcessResult ==
    Done /\ compiled # NULL =>
        rv = IF ~Deref(compiled).ok THEN 2
             ELSE IF Deref(executed).r # 0 THEN 1
             ELSE 0

\* Execution gave 2 and the run ended with 1.
C4_Witness ==
    /\ Done /\ executed # NULL /\ Deref(executed).r = 2 /\ rv = 1

\* C5: the shebang line is skipped exactly for a source from the positional path:
\* such a source starting with #! is compiled from the byte after its first line
\* terminator (from nothing without one) and the skip ends; a source from -i or -s
\* is compiled as it is.
C5_ShebangIffPositional ==
    /\ pc # "hang"
    /\ shebang => FromPositional
    /\ compiled # NULL =>
          /\ shebang = FromPositional
          /\ FromPositional /\ StartsWithShebang(OrigSource) =>
                Deref(compiled).bytes = AfterFirstNewline(OrigSource)
          /\ ~FromPositional => Deref(compiled).bytes = OrigSource

\* C6: a positional source that does not start with #! reaches the compiler byte
\* for byte.
C6_ProbeRestoresBytes ==
    compiled # NULL /\ FromPositional /\ ~StartsWithShebang(OrigSource) =>
        Deref(compiled).bytes = OrigSource

\* The characters of [A-Za-z0-9_].
IdentChars == Letters \cup Digits \cup {"_"}

\* name is key with every character outside IdentChars turned into "_".
Rewritten(key, name) ==
    /\ Len(name) = Len(key)
    /\ \A i \in 1..Len(key) : name[i] = IF key[i] \in IdentChars THEN key[i] ELSE "_"

GlobalsBuilt == rootscope # NULL

LibNameSet == {LibNames[i] : i \in 1..Len(LibNames)}

\* The configuration keys register_variable had a copy of.
Installed == {k \in KeysOf(env) : KeyIndex(env, k) \notin nomem}

\* C7 as stated: every globals key installed from a configuration key matches
\* [A-Za-z0-9_]+ and is the key with the other characters rewritten to "_".
C7_InstalledKeysMatchPlus ==
    GlobalsBuilt =>
        \A k \in Installed :
            \E name \in KeysOf(globals) :
                /\ Rewritten(k, name)
                /\ Len(name) >= 1
                /\ \A i \in 1..Len(name) : name[i] \in IdentChars

\* C7 amended: every globals key installed from a configuration key consists of
\* characters of [A-Za-z0-9_] only and is the key with every other character
\* rewritten to "_", its length kept: the empty key is installed under the empty
\* name.  A key whose strdup failed is not installed, and every globals key is the
\* search path, a library name or the rewriting of an installed key.
C7_InstalledKeysSanitized ==
    GlobalsBuilt =>
        /\ \A k \in Installed :
              \E name \in KeysOf(globals) : Rewritten(k, name)
        /\ \A name \in KeysOf(globals) :
              /\ \A i \in 1..Len(name) : name[i] \in IdentChars
              /\ \/ name = REQUIRE_SEARCH_PATH
                 \/ name \in LibNameSet
                 \/ \E k \in Installed : Rewritten(k, name)
        /\ <<>> \in Installed => HasKey(globals, <<>>)

\* A key and a namespace prefix with "-" were installed with "_".
C7_Witness ==
    /\ GlobalsBuilt /\ nomem = {}
    /\ HasKey(env, <<"1", "-", "b">>) /\ HasKey(globals, <<"1", "_", "b">>)
    /\ HasKey(env, <<"a", "-">>) /\ HasKey(globals, <<"a", "_">>)

\* C8: a configuration key that sanitizes to the name of a library binding is bound
\* to the configuration value when execution starts.  main.c fixes only the order,
\* configuration keys before uc_lib_init; the property holds if the installer
\* leaves an existing entry and fails if it replaces it.
C8_ConfigWinsOverLibrary ==
    executed # NULL =>
        \A k \in KeysOf(env) :
            Sanitize(k) \in LibNameSet =>
                json_object_object_get(Deref(executed).globals, Sanitize(k))
                    = json_object_object_get(env, k)

\* C9: an -e argument that is itself a JSON object text has its keys merged into the
\* top level of the configuration object.
C9_BareObjectMergesAtTop ==
    \A j \in 1..idx :
        (/\ opts[j].opt = "e"
         /\ Len(opts[j].arg) > 0 /\ opts[j].arg[1] = "{"
         /\ parse_envfile(opts[j].arg, "error") # Null) =>
            KeysOf(parse_envfile(opts[j].arg, "error")) \subseteq KeysOf(env)

\* C10: parse_envfile returns a value only when the tokenizer ended in success with
\* an object; every other input gives NULL, and the run then ends with result 1
\* naming the option letter, the configuration as it was, nothing compiled or run.
C10_EnvfileAllOrNothing ==
    lastEnv # NULL =>
        LET l == Deref(lastEnv)
        IN  /\ l.val # Null => l.err = "success" /\ l.type = "object" /\ l.val.type = "object"
            /\ ~(l.err = "success" /\ l.type = "object") => l.val = Null
            /\ l.val = Null =>
                  /\ pc \in {"out", "done"}
                  /\ rv = 1
                  /\ Len(errs) >= 2
                  /\ SubSeq(errs, Len(errs) - 1, Len(errs)) = <<"invalid_json", l.opt>>
                  /\ env = l.before
                  /\ compiled = NULL /\ executed = NULL

\* An array in a file longer than one chunk was refused.
C10_Witness ==
    /\ Done /\ lastEnv # NULL
    /\ Deref(lastEnv).val = Null /\ Deref(lastEnv).type = "array"
    /\ Deref(lastEnv).opt = "E" /\ Len(fs[PathF]) > BufSize

\* The value one json_tokener_parse_ex call over the whole text gives, NULL unless
\* it ends in success with an object.
ParseWhole(bytes) ==
    LET t == json_tokener_parse_ex(xjs_new_tokener, bytes)
    IN  IF json_tokener_get_error(t) = "success" /\ json_object_is_type(TokValue(t), "object")
        THEN TokValue(t) ELSE Null

\* C11: for a text that is a well-formed JSON object, parse_envfile, which feeds the
\* tokenizer chunks of 128 bytes, returns the value that parsing the same bytes as
\* one buffer gives, wherever the chunk boundary falls.
C11_ChunkedEqualsWhole ==
    lastEnv # NULL =>
        LET l == Deref(lastEnv)
        IN  ParseWhole(l.text) # Null => l.val = ParseWhole(l.text)

\* The chunk boundary fell inside a string value of an object that was accepted.
C11_Witness ==
    /\ lastEnv # NULL
    /\ Len(Deref(lastEnv).text) > BufSize
    /\ Deref(lastEnv).text[BufSize] = "a" /\ Deref(lastEnv).text[BufSize + 1] = "b"
    /\ Deref(lastEnv).val # Null

ModuleOpts == SelectSeq(opts, LAMBDA o : o.opt = "m")

\* C12: the module list handed to execution holds exactly the -m arguments, in the
\* order of the command line and with duplicates kept, whatever options stand
\* between them; without -m no list is handed over.
C12_ModulesInOrder ==
    executed # NULL =>
        LET m == Deref(executed).modules
        IN  IF ModuleOpts = <<>> THEN m = Null
            ELSE /\ m.type = "array"
                 /\ Len(m.items) = Len(ModuleOpts)
                 /\ \A i \in 1..Len(ModuleOpts) :
                       m.items[i].v.type = "string" /\ m.items[i].v.lit = ModuleOpts[i].arg

\* The same module was named twice, around another option, and both were handed over.
C12_Witness ==
    /\ executed # NULL
    /\ Len(opts) = 3 /\ opts[1].opt = "m" /\ opts[2].opt # "m" /\ opts[3] = opts[1]
    /\ Len(Deref(executed).modules.items) = 2

Count(x, seq) == Cardinality({i \in 1..Len(seq) : seq[i] = x})

HasOpt(o) == \E j \in 1..Len(opts) : opts[j].opt = o

\* Every option was processed and none of them ended the run.
OptionsPassed ==
    /\ argc > 1 /\ idx = Len(opts) /\ ~HasOpt("h")
    /\ ~InSeq("invalid_json", errs) /\ ~InSeq("failed_open", errs)

\* C13: the positional path becomes the program source only when no -i or -s gave
\* one, and a program compiled after -i or -s is the one that option named; when
\* the options are through and neither they nor a positional path gave a source,
\* the run ends with result 1, the missing-source diagnostic last, and nothing is
\* compiled or executed.
C13_PositionalOnlyWithoutSource ==
    /\ shebang => SourceOpts = {} /\ pos # NULL
    /\ compiled # NULL /\ SourceOpts # {} => Deref(compiled).bytes = OrigSource
    /\ OptionsPassed /\ SourceOpts = {} /\ pos = NULL /\ pc \in {"out", "done"} =>
          /\ rv = 1
          /\ errs # <<>> /\ errs[Len(errs)] = "no_source" /\ Count("no_source", errs) = 1
          /\ usage = 0
          /\ compiled = NULL /\ executed = NULL

\* Options were given, none of them a source, and no positional path.
C13_Witness ==
    /\ Done /\ OptionsPassed /\ SourceOpts = {} /\ pos = NULL
    /\ errs = <<"no_source">> /\ modules # Null

FirstH == CHOOSE j \in 1..Len(opts) : opts[j].opt = "h" /\ \A i \in 1..(j - 1) : opts[i].opt # "h"

\* C14 as stated: a command line with -h ends with usage and result 0 and does
\* nothing else: no standard input read, no configuration merged, nothing compiled
\* or executed, wherever -h stands.
C14_HelpDoesNothingElse ==
    HasOpt("h") =>
        /\ compiled = NULL /\ executed = NULL
        /\ captures = <<>> /\ env = Null
        /\ Done => rv = 0 /\ usage = 1

\* C14 amended: options are processed in order and -h acts where it stands: no
\* option after the first -h is processed and nothing is compiled or executed;
\* when -h is reached usage is printed once and the run ends with result 0; a
\* fatal option before -h ends the run with result 1 and without usage; with -h
\* first nothing was opened, read or merged.
C14_HelpStopsWhereItStands ==
    HasOpt("h") =>
        /\ idx <= FirstH
        /\ compiled = NULL /\ executed = NULL
        /\ pc \in {"start", "getopt", "out", "done"}
        /\ usage = IF idx = FirstH THEN 1 ELSE 0
        /\ idx = FirstH => rv = 0 /\ pc \in {"out", "done"}
        /\ Done /\ idx < FirstH => rv = 1
        /\ FirstH = 1 => created = 0 /\ captures = <<>> /\ env = Null /\ modules = Null
                                    /\ errs = <<>>

\* A configuration was merged before -h, the option after -h was never processed.
C14_Witness ==
    /\ Done /\ HasOpt("h") /\ usage = 1 /\ rv = 0
    /\ env # Null /\ idx < Len(opts)

IsParseRelease(e) == e \in {"uc_vm_free", "put_globals", "put_rootscope"}

\* The releases parse has made so far, in the order it made them.
ParseReleases == SelectSeq(log, IsParseRelease)

ParseEntered == InSeq("uc_vm_init", log)

\* C15 as stated: when parse has returned it has released globals first, then the
\* root scope if one was made, then the virtual machine, whichever step failed.
C15_GlobalsRootThenVm ==
    ParseEntered /\ pc \in {"out", "done"} =>
        ParseReleases = <<"put_globals">>
                            \o (IF GlobalsBuilt THEN <<"put_rootscope">> ELSE <<>>)
                            \o <<"uc_vm_free">>

\* C15 amended: when parse has returned it has released the virtual machine first,
\* then globals, then the root scope if one was made, each once, whichever step
\* failed; before that it has released nothing.
C15_VmGlobalsThenRoot ==
    /\ ParseEntered /\ pc \in {"out", "done"} =>
          ParseReleases = <<"uc_vm_free", "put_globals">>
                              \o (IF GlobalsBuilt THEN <<"put_rootscope">> ELSE <<>>)
    /\ pc \notin {"out", "done"} => ParseReleases = <<>>

\* Compilation failed: the virtual machine and globals were released, no root scope.
C15_Witness ==
    /\ Done /\ compiled # NULL /\ ~Deref(compiled).ok
    /\ ParseReleases = <<"uc_vm_free", "put_globals">>

\* C16: a positional source that starts with #! is compiled with its position base
\* raised by the number of bytes the skip took from it, and one that does not start
\* with #! with its base unchanged.
C16_OffsetCountsDiscarded ==
    compiled # NULL /\ FromPositional =>
        Deref(compiled).off = IF StartsWithShebang(OrigSource)
                              THEN Len(OrigSource) - Len(Deref(compiled).bytes)
                              ELSE 0

\* C17: when the run has ended every source handle it created has been released
\* exactly once.
C17_HandlesReleasedOnce ==
    Done => \A id \in 1..created : Count(id, released) = 1

IsPrefix(a, b) == Len(a) <= Len(b) /\ SubSeq(b, 1, Len(a)) = a

IsParseStep(e) == e \notin {"put_modules", "put_env", "put_source"}

\* The steps parse has taken so far.
ParseLog == SelectSeq(log, IsParseStep)

ParsePathCompiled ==
    <<"uc_vm_init", "uc_compile", "globals_init">>
        \o (IF env # Null THEN <<"register_variables">> ELSE <<>>)
        \o <<"uc_lib_init", "uc_protoref_new", "uc_vm_execute",
             "uc_vm_free", "put_globals", "put_rootscope">>

ParsePathFailed == <<"uc_vm_init", "uc_compile", "uc_vm_free", "put_globals">>

\* 1 for the search path, 2 for a name that comes from a configuration key, 3 for a
\* name only the library binds.
PopulationRank(name) ==
    IF name = REQUIRE_SEARCH_PATH THEN 1
    ELSE IF \E k \in Installed : Rewritten(k, name) THEN 2
    ELSE 3

\* C18: parse takes its steps on one path: shebang check, compile, then globals
\* filled with the search path, the configuration keys and the library in this
\* order, then the root scope with globals as parent and the binding global, then
\* one execution, then cleanup; after a failed compilation it goes to cleanup with
\* globals empty, no root scope and no execution.
C18_SinglePath ==
    /\ IF compiled # NULL /\ ~Deref(compiled).ok
       THEN /\ IsPrefix(ParseLog, ParsePathFailed)
            /\ globals = xjs_new_object /\ rootscope = NULL /\ executed = NULL
       ELSE IsPrefix(ParseLog, ParsePathCompiled)
    /\ GlobalsBuilt =>
          /\ compiled # NULL /\ Deref(compiled).ok
          /\ globals.items[1].k = REQUIRE_SEARCH_PATH
          /\ \A i, j \in 1..Len(globals.items) :
                i < j => PopulationRank(globals.items[i].k) <= PopulationRank(globals.items[j].k)
          /\ \A n \in LibNameSet :
                /\ HasKey(globals, n)
                /\ (\A k \in Installed : ~Rewritten(k, n)) =>
                       json_object_object_get(globals, n) = CFunction(n)
          /\ Deref(rootscope).parent = "globals"
          /\ KeysOf(Deref(rootscope).jso) = {GLOBAL}
          /\ json_object_object_get(Deref(rootscope).jso, GLOBAL) = globals
    /\ executed # NULL =>
          /\ GlobalsBuilt
          /\ Deref(executed).globals = globals /\ Deref(executed).rootscope = rootscope

\* A run with configuration keys, one of them a library name, that was executed.
C18_Witness ==
    /\ Done /\ executed # NULL
    /\ HasKey(env, PRINT) /\ Cardinality(KeysOf(env)) >= 2
    /\ ParseLog = ParsePathCompiled

KeySeq(o) == [i \in 1..Len(o.items) |-> o.items[i].k]

\* The top-level keys of the configuration object in the order the merge requests
\* 1..j wrote them: the prefix for a namespaced request, else the keys of its object.
RECURSIVE Writes(_)
Writes(j) ==
    IF j = 0 THEN <<>>
    ELSE Writes(j - 1) \o (IF opts[j].opt \notin {"e", "E"} THEN <<>>
                           ELSE IF Namespaced(opts[j].arg) THEN <<OptPrefix(opts[j].arg)>>
                           ELSE KeySeq(ReqObject(j)))

\* The last element of seq that sanitizes to name.
LastFor(name, seq) ==
    seq[CHOOSE i \in 1..Len(seq) :
            /\ Rewritten(seq[i], name)
            /\ \A h \in (i + 1)..Len(seq) : ~Rewritten(seq[h], name)]

\* The installed configuration keys in the order of env.
InstalledSeq == SelectSeq(KeySeq(env), LAMBDA k : k \in Installed)

\* The globals names two or more configuration keys sanitize to.
CollidingNames ==
    {name \in KeysOf(globals) : Cardinality({k \in KeysOf(env) : Rewritten(k, name)}) >= 2}

\* C19 as stated: a globals name several configuration keys sanitize to holds the
\* value of the colliding key the merge requests wrote last in command-line order.
C19_LastWrittenWins ==
    executed # NULL =>
        \A name \in CollidingNames :
            json_object_object_get(globals, name)
                = json_object_object_get(env, LastFor(name, Writes(Len(opts))))

\* C19 amended: a globals name several configuration keys sanitize to holds the
\* value of the colliding key that stands last in the configuration object, whose
\* keys stand in the order of their first insertion; a name the library binds as
\* well holds that value or the library's binding.  A key whose strdup failed was
\* not installed and does not count: without such a failure every key counts.
C19_LastInsertedWins ==
    executed # NULL =>
        /\ nomem = {} => InstalledSeq = KeySeq(env)
        /\ \A name \in CollidingNames :
              \/ /\ \E k \in Installed : Rewritten(k, name)
                 /\ json_object_object_get(globals, name)
                       = json_object_object_get(env, LastFor(name, InstalledSeq))
              \/ /\ name \in LibNameSet
                 /\ json_object_object_get(globals, name) = CFunction(name)

\* The key inserted first was overwritten by the last request and the globals name
\* holds the value of the other key.
C19_Witness ==
    /\ executed # NULL /\ nomem = {}
    /\ Len(opts) = 3 /\ opts[1] = Opt("e", ObjText(<<"1", "-", "b">>, <<"1">>))
    /\ opts[2] = Opt("e", TwoKeys)
    /\ json_object_object_get(env, <<"1", "-", "b">>) = IntVal(<<"0">>)
    /\ json_object_object_get(globals, <<"1", "_", "b">>) = IntVal(<<"2">>)

\* The -i and -s options processed so far.
SourceOptsDone == {j \in SourceOpts : j <= idx}

\* C20: every -i or -s after the first is diagnosed as a conflict, once each; the
\* conflict does not end the run; the program compiled is the source of the last
\* -i or -s, and the positional path is not used.
C20_LastSourceWins ==
    /\ Count("exclusive", errs) = IF SourceOptsDone = {} THEN 0
                                  ELSE Cardinality(SourceOptsDone) - 1
    /\ errs # <<>> /\ errs[Len(errs)] = "exclusive" /\ compiled = NULL => rv = 0
    /\ Cardinality(SourceOpts) >= 2 =>
          /\ ~shebang
          /\ compiled # NULL => Deref(compiled).bytes = OrigSource /\ Deref(compiled).off = 0

\* -s, -i and -s again before a positional path: two conflicts, the last -s compiled.
C20_Witness ==
    /\ Done /\ compiled # NULL /\ pos = Ptr(PathF)
    /\ Len(opts) = 3 /\ opts[1].opt = "s" /\ opts[2] = Opt("i", PathF) /\ opts[3].opt = "s"
    /\ errs = <<"exclusive", "exclusive">>
    /\ Deref(compiled).bytes = Prog /\ fs[PathF] # Prog

====
